---- MODULE Spec2Model ----
(***************************************************************************)
(* The Air Avionics TDB codec of flarmnet-rs (src/src/tdb): encode_file /  *)
(* Writer::write and decode_file, as operators over byte sequences, and a  *)
(* state machine that applies them to bounded inputs.                      *)
(*                                                                         *)
(* Bytes are integers 0..255, a Rust String is the sequence of its UTF-8   *)
(* bytes, a byte buffer is a sequence of bytes.  A u32 or usize value is a *)
(* pair [hi, lo] standing for hi * 65536 + lo (TLC's integers are 32-bit   *)
(* signed, a u32 does not fit); a u32 has hi < 65536.  usize is the        *)
(* 64-bit usize of the supported targets, so the sizes decode_file adds up *)
(* never wrap.                                                             *)
(***************************************************************************)
EXTENDS Integers, Sequences, FiniteSets, TLC

\* ------------------------------------------------------------------------
\* Layout constants (consts.rs)
\* ------------------------------------------------------------------------
MAGIC == <<8, 213, 25, 135>>
HEADER_SIZE == 12
INDEX_ENTRY_SIZE == 4
PADDING_SIZE == 8
RECORD_SIZE == 96

FLARM_ID_OFFSET == 0
FREQUENCY_OFFSET == 4
CALL_SIGN_OFFSET == 16
PILOT_NAME_OFFSET == 32
AIRFIELD_OFFSET == 48
PLANE_TYPE_OFFSET == 64
REGISTRATION_OFFSET == 80
STRING_FIELD_SIZE == 16

\* ------------------------------------------------------------------------
\* Unsigned machine integers as [hi, lo] pairs, base 65536
\* ------------------------------------------------------------------------
Base == 256 * 256

W(n) == [hi |-> n \div Base, lo |-> n % Base]

WAdd(a, b) ==
    LET l == a.lo + b.lo
    IN  [hi |-> a.hi + b.hi + (l \div Base), lo |-> l % Base]

\* a * k for a small factor k
WMul(a, k) ==
    LET l == a.lo * k
    IN  [hi |-> a.hi * k + (l \div Base), lo |-> l % Base]

WLess(a, b) == a.hi < b.hi \/ (a.hi = b.hi /\ a.lo < b.lo)

\* a / k and a % k for a small divisor k (long division, high limb first)
WDiv(a, k) ==
    LET r == (a.hi % k) * Base + a.lo
    IN  [hi |-> a.hi \div k, lo |-> r \div k]

WMod(a, k) == ((a.hi % k) * Base + a.lo) % k

\* the value as a plain integer, for values below 2^31
WInt(a) == a.hi * Base + a.lo

U32_MAX == [hi |-> 65535, lo |-> 65535]
FitsU32(a) == a.hi < Base

\* 0xFFFFFF, the largest FLARM id
MAX_FLARM_ID == [hi |-> 255, lo |-> 65535]

\* u32::from_le_bytes / u32::to_le_bytes
from_le_bytes(b) == [hi |-> b[4] * 256 + b[3], lo |-> b[2] * 256 + b[1]]
to_le_bytes(v) == <<v.lo % 256, v.lo \div 256, v.hi % 256, v.hi \div 256>>

\* ------------------------------------------------------------------------
\* Sequences of bytes
\* ------------------------------------------------------------------------
\* data[from..to) with 0-based offsets, as a Rust slice
Slice(data, from, to) == SubSeq(data, from + 1, to)

Zeros(n) == [i \in 1..n |-> 0]

RECURSIVE Concat(_)
Concat(ss) == IF ss = <<>> THEN <<>> ELSE Head(ss) \o Concat(Tail(ss))

\* position of the first element satisfying b = x (0-based), or -1
RECURSIVE PositionFrom(_, _, _)
PositionFrom(s, x, i) ==
    IF i > Len(s) THEN -1
    ELSE IF s[i] = x THEN i - 1
    ELSE PositionFrom(s, x, i + 1)

Position(s, x) == PositionFrom(s, x, 1)

\* ------------------------------------------------------------------------
\* Results
\* ------------------------------------------------------------------------
Ok(v) == [ok |-> TRUE, val |-> v]
Err(e) == [ok |-> FALSE, err |-> e]

\* ------------------------------------------------------------------------
\* str: UTF-8 validation and char boundaries
\* ------------------------------------------------------------------------
IsCont(b) == b >= 128 /\ b <= 191

\* std::str::from_utf8 succeeds on s[i..]: well-formed UTF-8 only
\* (no overlong forms, no surrogates, nothing above U+10FFFF)
RECURSIVE Utf8ValidFrom(_, _)
Utf8ValidFrom(s, i) ==
    IF i > Len(s) THEN TRUE
    ELSE LET b == s[i] IN
         IF b < 128 THEN Utf8ValidFrom(s, i + 1)
         ELSE IF b >= 194 /\ b <= 223
              THEN /\ i + 1 <= Len(s)
                   /\ IsCont(s[i + 1])
                   /\ Utf8ValidFrom(s, i + 2)
         ELSE IF b >= 224 /\ b <= 239
              THEN /\ i + 2 <= Len(s)
                   /\ IF b = 224 THEN s[i + 1] >= 160 /\ s[i + 1] <= 191
                      ELSE IF b = 237 THEN s[i + 1] >= 128 /\ s[i + 1] <= 159
                      ELSE IsCont(s[i + 1])
                   /\ IsCont(s[i + 2])
                   /\ Utf8ValidFrom(s, i + 3)
         ELSE IF b >= 240 /\ b <= 244
              THEN /\ i + 3 <= Len(s)
                   /\ IF b = 240 THEN s[i + 1] >= 144 /\ s[i + 1] <= 191
                      ELSE IF b = 244 THEN s[i + 1] >= 128 /\ s[i + 1] <= 143
                      ELSE IsCont(s[i + 1])
                   /\ IsCont(s[i + 2])
                   /\ IsCont(s[i + 3])
                   /\ Utf8ValidFrom(s, i + 4)
         ELSE FALSE

from_utf8_ok(s) == Utf8ValidFrom(s, 1)

\* str::is_char_boundary(index), index a 0-based byte offset
is_char_boundary(s, index) ==
    IF index = 0 THEN TRUE
    ELSE IF index >= Len(s) THEN index = Len(s)
    ELSE ~IsCont(s[index + 1])

floor_char_boundary_any_byte(s, index) == IF index >= Len(s) THEN Len(s) ELSE index

\* str::floor_char_boundary(index): the closest boundary at or below index
RECURSIVE floor_char_boundary(_, _)
floor_char_boundary(s, index) ==
    IF index >= Len(s) THEN Len(s)
    ELSE IF is_char_boundary(s, index) THEN index
    ELSE floor_char_boundary(s, index - 1)

\* ------------------------------------------------------------------------
\* Encoder helpers (encode.rs)
\* ------------------------------------------------------------------------
\* buf[offset .. offset + Len(bytes)].copy_from_slice(bytes)
copy_from_slice(buf, offset, bytes) ==
    [i \in 1..Len(buf) |->
        IF i > offset /\ i <= offset + Len(bytes) THEN bytes[i - offset] ELSE buf[i]]

\* the `truncated` of write_string
truncate(value, max_content) ==
    IF Len(value) > max_content
    THEN Slice(value, 0, floor_char_boundary(value, max_content))
    ELSE value

write_string(buf, offset, value) ==
    LET max_content == STRING_FIELD_SIZE - 1
        truncated == truncate(value, max_content)
    IN  copy_from_slice(buf, offset, truncated)

\* value of an ASCII hex digit, -1 for any other byte
HexDigit(c) ==
    IF c >= 48 /\ c <= 57 THEN c - 48
    ELSE IF c >= 65 /\ c <= 70 THEN c - 55
    ELSE IF c >= 97 /\ c <= 102 THEN c - 87
    ELSE -1

\* the digit loop of u32::from_str_radix(_, 16): invalid digit or overflow fail
RECURSIVE HexAccum(_, _, _)
HexAccum(s, i, acc) ==
    IF i > Len(s) THEN Ok(acc)
    ELSE LET d == HexDigit(s[i])
             next == WAdd(WMul(acc, 16), W(IF d < 0 THEN 0 ELSE d))
         IN  IF d < 0 \/ ~FitsU32(next) THEN Err("ParseIntError")
             ELSE HexAccum(s, i + 1, next)

\* u32::from_str_radix(s, 16): an optional leading '+', then one or more digits
from_str_radix16(s) ==
    IF s = <<>> THEN Err("ParseIntError")
    ELSE IF Len(s) = 1 /\ s[1] \in {43, 45} THEN Err("ParseIntError")
    ELSE IF s[1] = 43 THEN HexAccum(Tail(s), 1, W(0))
    ELSE HexAccum(s, 1, W(0))

InvalidFlarmIdStr(s) == [tag |-> "InvalidFlarmId", s |-> s]
InvalidFrequency(s) == [tag |-> "InvalidFrequency", s |-> s]

parse_flarm_id_unchecked(s) ==
    LET r == from_str_radix16(s)
    IN  IF ~r.ok THEN Err(InvalidFlarmIdStr(s)) ELSE Ok(r.val)

parse_flarm_id(s) ==
    LET r == from_str_radix16(s)
    IN  IF ~r.ok THEN Err(InvalidFlarmIdStr(s))
        ELSE IF WLess(MAX_FLARM_ID, r.val) THEN Err(InvalidFlarmIdStr(s))
        ELSE Ok(r.val)

\* ------------------------------------------------------------------------
\* str::parse::<f64>() and the conversion of parse_frequency
\* ------------------------------------------------------------------------
IsDigit(c) == c >= 48 /\ c <= 57

\* ASCII lower-casing of a byte string
Lower(s) == [i \in 1..Len(s) |-> IF s[i] >= 65 /\ s[i] <= 90 THEN s[i] + 32 ELSE s[i]]

\* length of the longest prefix of s[i..] made of ASCII digits
RECURSIVE DigitRun(_, _)
DigitRun(s, i) ==
    IF i <= Len(s) /\ IsDigit(s[i]) THEN 1 + DigitRun(s, i + 1) ELSE 0

\* value of a short string of ASCII digits
RECURSIVE DigitsValue(_)
DigitsValue(s) ==
    IF s = <<>> THEN 0
    ELSE DigitsValue(SubSeq(s, 1, Len(s) - 1)) * 10 + (s[Len(s)] - 48)

STR_INF == <<105, 110, 102>>
STR_INFINITY == <<105, 110, 102, 105, 110, 105, 116, 121>>
STR_NAN == <<110, 97, 110>>

NotANumber == [ok |-> FALSE]
Special(kind, neg) == [ok |-> TRUE, kind |-> kind, neg |-> neg, digits |-> <<>>, point |-> 0]
Number(neg, digits, point) ==
    [ok |-> TRUE, kind |-> "num", neg |-> neg, digits |-> digits, point |-> point]

\* the exponent part: nothing, or e / E, an optional sign and one or more digits
ParseExponent(neg, digits, nInt, rest) ==
    IF rest = <<>> THEN Number(neg, digits, nInt)
    ELSE IF rest[1] \notin {101, 69} THEN NotANumber
    ELSE LET signed == Len(rest) >= 2 /\ rest[2] \in {43, 45}
             expDigits == SubSeq(rest, IF signed THEN 3 ELSE 2, Len(rest))
         IN  IF expDigits = <<>> \/ DigitRun(expDigits, 1) # Len(expDigits) THEN NotANumber
             ELSE IF signed /\ rest[2] = 45
                  THEN Number(neg, digits, nInt - DigitsValue(expDigits))
                  ELSE Number(neg, digits, nInt + DigitsValue(expDigits))

\* the fraction: nFrac digits behind a point that follows the nInt digits
ParseFraction(neg, body, nInt, nFrac) ==
    IF nInt + nFrac = 0 THEN NotANumber
    ELSE ParseExponent(neg,
                       SubSeq(body, 1, nInt) \o SubSeq(body, nInt + 2, nInt + 1 + nFrac),
                       nInt,
                       SubSeq(body, nInt + 2 + nFrac, Len(body)))

\* the mantissa: nInt digits, then a point and more digits, or no point
ParseMantissa(neg, body, nInt) ==
    IF nInt < Len(body) /\ body[nInt + 1] = 46
    THEN ParseFraction(neg, body, nInt, DigitRun(body, nInt + 2))
    ELSE IF nInt = 0 THEN NotANumber
    ELSE ParseExponent(neg, SubSeq(body, 1, nInt), nInt, SubSeq(body, nInt + 1, Len(body)))

ParseUnsigned(neg, body) ==
    IF Lower(body) \in {STR_INF, STR_INFINITY} THEN Special("inf", neg)
    ELSE IF Lower(body) = STR_NAN THEN Special("nan", neg)
    ELSE ParseMantissa(neg, body, DigitRun(body, 1))

\* The literal grammar f64::from_str accepts: [+-] then inf | infinity | nan
\* (any case) or digits [. digits] [(e|E) [+-] digits] with at least one
\* mantissa digit.  The result keeps the decimal digits instead of a binary
\* double: kind, sign, mantissa digits and the position of the decimal point.
ParseF64(s) ==
    IF s # <<>> /\ s[1] \in {43, 45} THEN ParseUnsigned(s[1] = 45, Tail(s))
    ELSE ParseUnsigned(FALSE, s)

\* the integer made of the first k mantissa digits (zeros past the last
\* digit), saturating: a value past u32::MAX stays past it
RECURSIVE LeadingValue(_, _, _, _)
LeadingValue(digits, k, i, acc) ==
    IF i > k \/ ~FitsU32(acc) THEN acc
    ELSE LET d == IF i <= Len(digits) THEN digits[i] - 48 ELSE 0
         IN  LeadingValue(digits, k, i + 1, WAdd(WMul(acc, 10), W(d)))

\* (mhz * 1000.0).round() as u32 : round half away from zero, then the
\* saturating float-to-int cast (negative and NaN give 0, too large u32::MAX).
\* The decimal value is rounded exactly; the double's own rounding error is
\* far below 0.5 unless the decimal is itself a half-thousandth.
round_thousandths_as_u32(f) ==
    IF f.kind = "nan" THEN W(0)
    ELSE IF f.neg THEN W(0)
    ELSE IF f.kind = "inf" THEN U32_MAX
    ELSE LET k == f.point + 3
             whole == IF k <= 0 THEN W(0) ELSE LeadingValue(f.digits, k, 1, W(0))
             half == IF k >= 0 /\ k + 1 <= Len(f.digits) THEN f.digits[k + 1] - 48 ELSE 0
             rounded == IF half >= 5 /\ FitsU32(whole) THEN WAdd(whole, W(1)) ELSE whole
         IN  IF FitsU32(rounded) THEN rounded ELSE U32_MAX

parse_frequency(s) ==
    IF s = <<>> THEN Ok(W(0))
    ELSE LET mhz == ParseF64(s)
         IN  IF ~mhz.ok THEN Err(InvalidFrequency(s))
             ELSE Ok(round_thousandths_as_u32(mhz))

\* ------------------------------------------------------------------------
\* Writer::write, Writer::write_record, encode_file (encode.rs)
\* ------------------------------------------------------------------------
\* One 96-byte record, or the InvalidFrequency error of parse_frequency
write_record(flarm_id, record) ==
    LET frequency == parse_frequency(record.frequency)
    IN  IF ~frequency.ok THEN Err(frequency.err)
        ELSE LET b0 == Zeros(RECORD_SIZE)
                 b1 == copy_from_slice(b0, FLARM_ID_OFFSET, to_le_bytes(flarm_id))
                 b2 == copy_from_slice(b1, FREQUENCY_OFFSET, to_le_bytes(frequency.val))
                 b3 == write_string(b2, CALL_SIGN_OFFSET, record.call_sign)
                 b4 == write_string(b3, PILOT_NAME_OFFSET, record.pilot_name)
                 b5 == write_string(b4, AIRFIELD_OFFSET, record.airfield)
                 b6 == write_string(b5, PLANE_TYPE_OFFSET, record.plane_type)
                 b7 == write_string(b6, REGISTRATION_OFFSET, record.registration)
             IN  Ok(b7)

\* records.iter().map(parse_flarm_id).collect::<Result<_, _>>(): the pairs
\* (id, record) in input order, or the error of the first record that fails
RECURSIVE collect_entries_keep_going(_, _, _)
collect_entries_keep_going(records, i, acc) ==
    IF i > Len(records) THEN Ok(acc)
    ELSE LET id == parse_flarm_id(records[i].flarm_id)
             rest == collect_entries_keep_going(
                         records, i + 1,
                         IF id.ok THEN Append(acc, [id |-> id.val, record |-> records[i]])
                         ELSE acc)
         IN  IF ~rest.ok THEN rest
             ELSE IF ~id.ok THEN Err(id.err)
             ELSE rest

RECURSIVE collect_entries(_, _, _)
collect_entries(records, i, acc) ==
    IF i > Len(records) THEN Ok(acc)
    ELSE LET id == parse_flarm_id(records[i].flarm_id)
         IN  IF ~id.ok THEN Err(id.err)
             ELSE collect_entries(records, i + 1,
                                  Append(acc, [id |-> id.val, record |-> records[i]]))

\* where a stable sort puts e among the already sorted entries: after every
\* entry whose key is not greater
RECURSIVE InsertPos_before_equal(_, _, _)
InsertPos_before_equal(sorted, e, i) ==
    IF i > Len(sorted) \/ ~WLess(sorted[i].id, e.id) THEN i
    ELSE InsertPos_before_equal(sorted, e, i + 1)

RECURSIVE InsertPos(_, _, _)
InsertPos(sorted, e, i) ==
    IF i > Len(sorted) \/ WLess(e.id, sorted[i].id) THEN i
    ELSE InsertPos(sorted, e, i + 1)

\* entries.sort_by_key(|(id, _)| *id): stable, ascending
RECURSIVE sort_by_key(_)
sort_by_key(entries) ==
    IF entries = <<>> THEN <<>>
    ELSE LET n == Len(entries)
             sorted == sort_by_key(SubSeq(entries, 1, n - 1))
             e == entries[n]
             k == InsertPos(sorted, e, 1)
         IN  SubSeq(sorted, 1, k - 1) \o <<e>> \o SubSeq(sorted, k, Len(sorted))

\* the index loop: one little-endian id per entry
RECURSIVE write_index(_)
write_index(entries) ==
    IF entries = <<>> THEN <<>>
    ELSE to_le_bytes(entries[1].id) \o write_index(Tail(entries))

\* the records loop: stops at the first record whose write fails, the sink
\* keeps what was written before
write_records_checked_first(entries, i, sink) ==
    LET bad == {j \in i..Len(entries) : ~parse_frequency(entries[j].record.frequency).ok}
    IN  IF bad # {}
        THEN LET j == CHOOSE x \in bad : \A y \in bad : x <= y
             IN  [res |-> Err(parse_frequency(entries[j].record.frequency).err),
                  sink |-> sink]
        ELSE [res |-> Ok("unit"),
              sink |-> sink \o Concat([j \in 1..(Len(entries) - i + 1) |->
                           write_record(entries[i + j - 1].id,
                                        entries[i + j - 1].record).val])]

RECURSIVE write_records(_, _, _)
write_records(entries, i, sink) ==
    IF i > Len(entries) THEN [res |-> Ok("unit"), sink |-> sink]
    ELSE LET r == write_record(entries[i].id, entries[i].record)
         IN  IF ~r.ok THEN [res |-> Err(r.err), sink |-> sink]
             ELSE write_records(entries, i + 1, sink \o r.val)

\* Writer::write on a sink holding `sink`: the result and the sink afterwards
Write(sink, file) ==
    LET collected == collect_entries(file.records, 1, <<>>)
    IN  IF ~collected.ok THEN [res |-> Err(collected.err), sink |-> sink]
        ELSE LET entries == sort_by_key(collected.val)
                 count == W(Len(entries))
                 header == MAGIC \o to_le_bytes(file.version) \o to_le_bytes(count)
                 index == write_index(entries)
                 padding == Zeros(PADDING_SIZE)
             IN  write_records(entries, 1, sink \o header \o index \o padding)

encode_file(file) ==
    LET w == Write(<<>>, file)
    IN  IF ~w.res.ok THEN Err(w.res.err) ELSE Ok(w.sink)

\* ------------------------------------------------------------------------
\* decode_file, decode_record, decode_string (decode.rs)
\* ------------------------------------------------------------------------
UnexpectedEof == [tag |-> "UnexpectedEof"]
InvalidMagic(magic) == [tag |-> "InvalidMagic", magic |-> magic]
InvalidFlarmId(id) == [tag |-> "InvalidFlarmId", id |-> id]
InvalidUtf8(field, offset) == [tag |-> "InvalidUtf8", field |-> field, offset |-> offset]

HexUpper(d) == IF d < 10 THEN 48 + d ELSE 55 + d

RECURSIVE HexDigits(_)
HexDigits(v) ==
    IF v = W(0) THEN <<>> ELSE Append(HexDigits(WDiv(v, 16)), HexUpper(WMod(v, 16)))

RECURSIVE DecDigits(_)
DecDigits(v) ==
    IF v = W(0) THEN <<>> ELSE Append(DecDigits(WDiv(v, 10)), 48 + WMod(v, 10))

\* zero padding on the left up to the minimum width; "0" for the value 0
PadZero(digits, width) ==
    LET d == IF digits = <<>> THEN <<48>> ELSE digits
    IN  IF Len(d) >= width THEN d ELSE [i \in 1..(width - Len(d)) |-> 48] \o d

format_06X_unpadded(v) == PadZero(HexDigits(v), 1)

\* format!("{:06X}", v)
format_06X(v) == PadZero(HexDigits(v), 6)

format_frequency_unpadded(frequency) ==
    PadZero(DecDigits(WDiv(frequency, 1000)), 1)
    \o <<46>>
    \o PadZero(DecDigits(W(WMod(frequency, 1000))), 1)

\* format!("{}.{:03}", frequency / 1000, frequency % 1000)
format_frequency(frequency) ==
    PadZero(DecDigits(WDiv(frequency, 1000)), 1)
    \o <<46>>
    \o PadZero(DecDigits(W(WMod(frequency, 1000))), 3)

decode_string_needs_terminator(data, offset, field) ==
    LET field_bytes == Slice(data, offset, offset + STRING_FIELD_SIZE)
        pos == Position(field_bytes, 0)
        end == IF pos < 0 THEN STRING_FIELD_SIZE - 1 ELSE pos
        content == Slice(field_bytes, 0, end)
    IN  IF from_utf8_ok(content) THEN Ok(content)
        ELSE Err(InvalidUtf8(field, offset))

decode_string(data, offset, field) ==
    LET field_bytes == Slice(data, offset, offset + STRING_FIELD_SIZE)
        pos == Position(field_bytes, 0)
        end == IF pos < 0 THEN STRING_FIELD_SIZE ELSE pos
        content == Slice(field_bytes, 0, end)
    IN  IF from_utf8_ok(content) THEN Ok(content)
        ELSE Err(InvalidUtf8(field, offset))

decode_record(data) ==
    LET raw_id == from_le_bytes(Slice(data, FLARM_ID_OFFSET, FLARM_ID_OFFSET + 4))
        raw_freq == from_le_bytes(Slice(data, FREQUENCY_OFFSET, FREQUENCY_OFFSET + 4))
        frequency == IF raw_freq = W(0) THEN <<>> ELSE format_frequency(raw_freq)
        call_sign == decode_string(data, CALL_SIGN_OFFSET, "call_sign")
        pilot_name == decode_string(data, PILOT_NAME_OFFSET, "pilot_name")
        airfield == decode_string(data, AIRFIELD_OFFSET, "airfield")
        plane_type == decode_string(data, PLANE_TYPE_OFFSET, "plane_type")
        registration == decode_string(data, REGISTRATION_OFFSET, "registration")
    IN  IF WLess(MAX_FLARM_ID, raw_id) THEN Err(InvalidFlarmId(raw_id))
        ELSE IF ~call_sign.ok THEN Err(call_sign.err)
        ELSE IF ~pilot_name.ok THEN Err(pilot_name.err)
        ELSE IF ~airfield.ok THEN Err(airfield.err)
        ELSE IF ~plane_type.ok THEN Err(plane_type.err)
        ELSE IF ~registration.ok THEN Err(registration.err)
        ELSE Ok([flarm_id |-> format_06X(raw_id),
                 pilot_name |-> pilot_name.val,
                 airfield |-> airfield.val,
                 plane_type |-> plane_type.val,
                 registration |-> registration.val,
                 call_sign |-> call_sign.val,
                 frequency |-> frequency])

\* data.len() < expected_size, on lengths and sizes as usize
is_truncated_inclusive(len, expected_size) == ~WLess(expected_size, W(len))

is_truncated(len, expected_size) == WLess(W(len), expected_size)

\* the offset of record slot i (from 0) behind records_offset
record_offset_first(records_offset, i) == records_offset

record_offset(records_offset, i) == records_offset + i * RECORD_SIZE

decode_file(data) ==
    IF Len(data) < HEADER_SIZE THEN Err(UnexpectedEof)
    ELSE LET magic == Slice(data, 0, 4) IN
    IF magic # MAGIC THEN Err(InvalidMagic(magic))
    ELSE LET version == from_le_bytes(Slice(data, 4, 8))
             record_count == from_le_bytes(Slice(data, 8, 12))
             expected_size ==
                 WAdd(WAdd(WAdd(W(HEADER_SIZE), WMul(record_count, INDEX_ENTRY_SIZE)),
                           W(PADDING_SIZE)),
                      WMul(record_count, RECORD_SIZE))
         IN
    IF is_truncated(Len(data), expected_size) THEN Err(UnexpectedEof)
    ELSE LET n == WInt(record_count)
             records_offset == HEADER_SIZE + n * INDEX_ENTRY_SIZE + PADDING_SIZE
             records ==
                 [i \in 1..n |->
                     LET offset == record_offset(records_offset, i - 1)
                     IN  decode_record(Slice(data, offset, offset + RECORD_SIZE))]
         IN  Ok([version |-> version, records |-> records])

\* ------------------------------------------------------------------------
\* Inputs: strings as UTF-8 byte sequences
\* ------------------------------------------------------------------------
DIGITS == "0123456789"
UPPER == "ABCDEFGHIJKLMNOPQRSTUVWXYZ"
LOWER == "abcdefghijklmnopqrstuvwxyz"

\* 1-based position of the one-character string c in table, 0 when absent
RECURSIVE IndexIn(_, _, _)
IndexIn(table, c, i) ==
    IF i > Len(table) THEN 0
    ELSE IF SubSeq(table, i, i) = c THEN i
    ELSE IndexIn(table, c, i + 1)

\* the ASCII code of a one-character string: digits, letters, space + - .
AsciiCode(c) ==
    IF IndexIn(DIGITS, c, 1) > 0 THEN 47 + IndexIn(DIGITS, c, 1)
    ELSE IF IndexIn(UPPER, c, 1) > 0 THEN 64 + IndexIn(UPPER, c, 1)
    ELSE IF IndexIn(LOWER, c, 1) > 0 THEN 96 + IndexIn(LOWER, c, 1)
    ELSE IF c = " " THEN 32
    ELSE IF c = "+" THEN 43
    ELSE IF c = "-" THEN 45
    ELSE 46

\* the UTF-8 bytes of an ASCII string literal
Bytes(str) == [i \in 1..Len(str) |-> AsciiCode(SubSeq(str, i, i))]

Record(flarm_id, frequency, call_sign, pilot_name, airfield, plane_type, registration) ==
    [flarm_id |-> flarm_id, frequency |-> frequency, call_sign |-> call_sign,
     pilot_name |-> pilot_name, airfield |-> airfield, plane_type |-> plane_type,
     registration |-> registration]

File(version, records) == [version |-> version, records |-> records]

\* None of the text values holds a lone continuation byte: a Rust String is
\* valid UTF-8.  A-umlaut is c3 84, the euro sign e2 82 ac, U+1F600 f0 9f 98 80.
A_UMLAUT == <<195, 132>>
EURO == <<226, 130, 172>>
GRIN == <<240, 159, 152, 128>>

Texts ==
    << <<>>,
       Bytes("SG"),
       Bytes("John Doe"),
       Bytes("0123456789ABCDE"),
       Bytes("0123456789ABCDEF"),
       Bytes("01234567890123") \o A_UMLAUT,
       Bytes("0123456789012") \o EURO,
       Bytes("0123456789012") \o GRIN,
       Bytes("012345678901") \o GRIN \o Bytes("xyz"),
       Bytes("A") \o <<0>> \o Bytes("B"),
       Bytes("EDKA") \o <<0>>,
       Bytes("0123456789ABCD") \o <<0>> \o Bytes("Z") >>

FlarmIds ==
    { Bytes("3EE3C7"), Bytes("000000"), Bytes("FFFFFF"), Bytes("00000F"),
      Bytes("abc"), Bytes("+1f"), Bytes("0000000001"),
      Bytes("ZZZZZZ"), Bytes("1000000"), Bytes("100000000"), Bytes("-1"), <<>> }

Frequencies ==
    { <<>>, Bytes("123.500"), Bytes("0.001"), Bytes("4294967.295"),
      Bytes("0.000"), Bytes("0123.500"), Bytes("4294967.296"), Bytes("99999999999.000"),
      Bytes("-1.000"), Bytes("123.5"), Bytes("123"), Bytes("1.2346"), Bytes("1.2344"),
      Bytes(".5"), Bytes("1e2"), Bytes("inf"), Bytes("NaN"),
      Bytes("abc"), Bytes("12a"), Bytes("1.2.3"), Bytes(" 1") }

\* the text at position j of Texts, wrapping around
TextAt(j) == Texts[((j - 1) % Len(Texts)) + 1]

\* a record whose five text fields take five consecutive values of Texts
RichRecord(id, freq, j) ==
    Record(id, freq, TextAt(j), TextAt(j + 1), TextAt(j + 2), TextAt(j + 3), TextAt(j + 4))

RichRecords ==
    {RichRecord(id, freq, j) : id \in FlarmIds, freq \in Frequencies, j \in {1}}
    \cup {RichRecord(Bytes("3EE3C7"), freq, j) :
              freq \in {Bytes("123.500")}, j \in 1..Len(Texts)}

\* the records of the files with several records: equal ids (also spelled
\* differently), ids and frequencies that do not parse
SmallRecords ==
    { Record(Bytes("00000F"), <<>>, Bytes("X27"), <<>>, Bytes("D-9527"), Bytes("ASW 27"),
             Bytes("D-9527")),
      Record(Bytes("000001"), Bytes("123.150"), <<>>, <<>>, <<>>, Bytes("Paraglider"), <<>>),
      Record(Bytes("000001"), <<>>, Bytes("twin"), Bytes("0123456789ABCDEF"),
             Bytes("01234567890123") \o A_UMLAUT, <<>>, <<>>),
      Record(Bytes("f"), Bytes("1"), Bytes("low"), Bytes("A") \o <<0>> \o Bytes("B"), <<>>,
             <<>>, <<>>),
      Record(Bytes("FFFFFF"), Bytes("abc"), <<>>, <<>>, <<>>, <<>>, <<>>),
      Record(Bytes("000000"), Bytes("x"), <<>>, <<>>, <<>>, <<>>, <<>>),
      Record(Bytes("1"), Bytes("y"), Bytes("one"), <<>>, <<>>, <<>>, <<>>),
      Record(Bytes("01"), Bytes("12a"), <<>>, <<>>, <<>>, <<>>, <<>>),
      Record(Bytes("ZZZZZZ"), Bytes("abc"), <<>>, <<>>, <<>>, <<>>, <<>>),
      Record(Bytes("1000000"), <<>>, <<>>, <<>>, <<>>, <<>>, <<>>) }

\* the largest number of records of a file built from SmallRecords
MaxRecords == 3

RECURSIVE SeqsUpTo(_, _)
SeqsUpTo(S, n) ==
    IF n = 0 THEN {<<>>}
    ELSE LET shorter == SeqsUpTo(S, n - 1)
         IN  shorter \cup {Append(s, x) : s \in {q \in shorter : Len(q) = n - 1}, x \in S}

Versions == {W(1), [hi |-> 258, lo |-> 772], U32_MAX}

\* every version with the short Files, one version with the longer ones
VersionsFor(rs) == IF Len(rs) < 2 THEN Versions ELSE {[hi |-> 258, lo |-> 772]}

Files ==
    UNION {{File(v, rs) : v \in VersionsFor(rs)} : rs \in SeqsUpTo(SmallRecords, MaxRecords)}
    \cup {File(W(1), <<r>>) : r \in RichRecords}

\* ------------------------------------------------------------------------
\* Inputs: raw buffers for the decoder
\* ------------------------------------------------------------------------
\* a 96-byte record with the given raw integers and raw field bytes
RawRecord(flarm_id, frequency, call_sign, pilot_name, airfield, plane_type, registration) ==
    LET b0 == Zeros(RECORD_SIZE)
        b1 == copy_from_slice(b0, FLARM_ID_OFFSET, to_le_bytes(flarm_id))
        b2 == copy_from_slice(b1, FREQUENCY_OFFSET, to_le_bytes(frequency))
        b3 == copy_from_slice(b2, CALL_SIGN_OFFSET, call_sign)
        b4 == copy_from_slice(b3, PILOT_NAME_OFFSET, pilot_name)
        b5 == copy_from_slice(b4, AIRFIELD_OFFSET, airfield)
        b6 == copy_from_slice(b5, PLANE_TYPE_OFFSET, plane_type)
    IN  copy_from_slice(b6, REGISTRATION_OFFSET, registration)

\* header, index, padding and the records as they are (tests::make_valid_file)
make_valid_file(version, records) ==
    MAGIC \o to_le_bytes(version) \o to_le_bytes(W(Len(records)))
    \o Concat([i \in 1..Len(records) |-> Slice(records[i], 0, 4)])
    \o Zeros(PADDING_SIZE)
    \o Concat(records)

RawGood ==
    RawRecord([hi |-> 62, lo |-> 58311], W(123500), Bytes("SG"), <<>>, Bytes("EDKA"),
              Bytes("LS6a"), Bytes("D-0816"))
\* every text field full, no terminator; the id is 0xFFFFFF
RawFull ==
    RawRecord(MAX_FLARM_ID, U32_MAX, Bytes("0123456789ABCDEF"),
              Bytes("01234567890123") \o A_UMLAUT, Bytes("0123456789012") \o EURO,
              Bytes("012345678901") \o GRIN, Bytes("PPPPPPPPPPPPPPPP"))
\* id 0x1000000 and call_sign ff fe
RawBadIdBadText ==
    RawRecord([hi |-> 256, lo |-> 0], W(0), <<255, 254>>, <<>>, <<>>, <<>>, <<>>)
\* pilot_name and registration are not UTF-8; airfield has bytes after a zero
RawBadTexts ==
    RawRecord(W(1), W(1), Bytes("ok"), <<192, 128>>, <<65, 0, 255>>, <<>>,
              <<237, 160, 128>>)
\* a two-byte character cut by the end of the plane_type field
RawSplit ==
    RawRecord(W(15), W(999), <<>>, <<>>, <<>>, Bytes("012345678901234") \o <<195>>,
              <<132>>)

Buffers ==
    { <<>>,
      <<8, 213, 25>>,
      <<0, 0, 0>>,
      Zeros(HEADER_SIZE),
      MAGIC \o to_le_bytes(W(1)) \o to_le_bytes(W(1)),
      MAGIC \o to_le_bytes(W(1)) \o to_le_bytes(W(0)) \o Zeros(7),
      MAGIC \o to_le_bytes(W(7)) \o to_le_bytes(U32_MAX) \o Zeros(PADDING_SIZE),
      MAGIC \o to_le_bytes(W(7)) \o to_le_bytes([hi |-> 256, lo |-> 1]) \o Zeros(120),
      make_valid_file(U32_MAX, <<>>),
      make_valid_file(W(1), <<RawGood>>) \o <<1, 2, 3>>,
      make_valid_file(W(1), <<RawFull, RawGood>>),
      make_valid_file(W(2), <<RawBadIdBadText, RawBadTexts>>),
      make_valid_file(W(3), <<RawSplit, RawGood>>) }

\* frequency integers across the u32 range
FreqValues ==
    {[hi |-> h, lo |-> l] :
        h \in {0, 1, 15, 255, 256, 32767, 32768, 65535},
        l \in {0, 1, 9, 10, 99, 100, 999, 1000, 1001, 57964, 65534, 65535}}

FreqBuffers ==
    {make_valid_file(W(1), <<RawRecord(W(1), v, Bytes("SG"), <<>>, <<>>, <<>>, <<>>)>>) :
        v \in FreqValues}

\* ------------------------------------------------------------------------
\* The state machine: a caller that encodes a File, decodes a buffer, encodes
\* what it decoded, and decodes a buffer again after changing it
\* ------------------------------------------------------------------------
VARIABLES
    pc,           \* "file": a File to encode; "bytes": a buffer to decode;
                  \* "failed", "decoded", "reencoded"
    origin,       \* "file" or "bytes": what the caller started from
    file,         \* the File given to encode_file
    sink,         \* the bytes the Writer's sink has received
    encoded,      \* the result of encode_file(file)
    data,         \* the buffer given to decode_file
    decoded,      \* the result of decode_file(data)
    reencoded,    \* the result of encode_file on the decoded File
    prev,         \* the buffer before the last change
    prevDecoded,  \* the result of decode_file(prev)
    patches       \* how many times the buffer was changed

vars == <<pc, origin, file, sink, encoded, data, decoded, reencoded, prev, prevDecoded,
          patches>>

NotRun == Err([tag |-> "NotRun"])

\* the most changes made to one buffer
MaxPatches == 1

InitFile ==
    /\ pc = "file"
    /\ origin = "file"
    /\ file \in Files
    /\ sink = <<>>
    /\ encoded = NotRun
    /\ data = <<>>
    /\ decoded = NotRun
    /\ reencoded = NotRun
    /\ prev = <<>>
    /\ prevDecoded = NotRun
    /\ patches = 0

InitBytes(buffers) ==
    /\ pc = "bytes"
    /\ origin = "bytes"
    /\ file = File(W(0), <<>>)
    /\ sink = <<>>
    /\ encoded = NotRun
    /\ data \in buffers
    /\ decoded = NotRun
    /\ reencoded = NotRun
    /\ prev = <<>>
    /\ prevDecoded = NotRun
    /\ patches = 0

\* let encoded = encode_file(&file); the writer inside it runs Writer::write
EncodeFile ==
    /\ pc = "file"
    /\ encoded' = encode_file(file)
    /\ sink' = Write(<<>>, file).sink
    /\ data' = IF encoded'.ok THEN encoded'.val ELSE data
    /\ pc' = IF encoded'.ok THEN "bytes" ELSE "failed"
    /\ UNCHANGED <<origin, file, decoded, reencoded, prev, prevDecoded, patches>>

\* let decoded = decode_file(&data)
DecodeFile ==
    /\ pc = "bytes"
    /\ decoded' = decode_file(data)
    /\ pc' = "decoded"
    /\ UNCHANGED <<origin, file, sink, encoded, data, reencoded, prev, prevDecoded, patches>>

AllOk(result) ==
    result.ok /\ \A i \in 1..Len(result.val.records) : result.val.records[i].ok

\* the File made of the decoded version and the decoded records
DecodedFile(result) ==
    File(result.val.version,
         [i \in 1..Len(result.val.records) |-> result.val.records[i].val])

\* encode_file on what decode_file returned, when every record decoded
ReEncode ==
    /\ pc = "decoded"
    /\ patches = 0
    /\ AllOk(decoded)
    /\ reencoded' = encode_file(DecodedFile(decoded))
    /\ pc' = "reencoded"
    /\ UNCHANGED <<origin, file, sink, encoded, data, decoded, prev, prevDecoded, patches>>

\* the record count a buffer of this length holds
SlotsOf(buf) == IF Len(buf) >= 20 THEN (Len(buf) - 20) \div 100 ELSE 0

RecordPatchOffsets == {0, 3, 4, 8, 16, 17, 31, 32, 80, 95}
PatchBytes == {0, 65, 255}

\* offsets worth changing: header, index, padding, fields of every record
PatchOffsets(buf) ==
    LET n == SlotsOf(buf)
    IN  {o \in {0, 3, 4, 8, 11}
             \cup {12 + 4 * i : i \in 0..(n - 1)}
             \cup {12 + 4 * n, 19 + 4 * n}
             \cup {20 + 4 * n + 96 * i + r : i \in 0..(n - 1), r \in RecordPatchOffsets}
             \cup {Len(buf) - 1} :
           o >= 0 /\ o < Len(buf)}

Redecode(buf) ==
    /\ patches < MaxPatches
    /\ buf # data
    /\ prev' = data
    /\ prevDecoded' = decoded
    /\ data' = buf
    /\ decoded' = decode_file(buf)
    /\ patches' = patches + 1
    /\ UNCHANGED <<pc, origin, file, sink, encoded, reencoded>>

\* one byte of the buffer changes and the buffer is decoded again
PatchByte ==
    /\ pc = "decoded"
    /\ \E o \in PatchOffsets(data), b \in PatchBytes :
           Redecode([data EXCEPT ![o + 1] = b])

\* the buffer loses its end and is decoded again
Truncate ==
    /\ pc = "decoded"
    /\ \E n \in {0, 11, 12, 19, 20, 119, 120, Len(data) - 1} :
           /\ n >= 0 /\ n < Len(data)
           /\ Redecode(SubSeq(data, 1, n))

\* bytes are appended to the buffer and it is decoded again
Extend ==
    /\ pc = "decoded"
    /\ \E tail \in {<<0>>, <<255, 255>>} : Redecode(data \o tail)

\* round trips from Files, and from buffers holding every sampled frequency
Init == InitFile \/ InitBytes(FreqBuffers)
Next == EncodeFile \/ DecodeFile \/ ReEncode
Spec == Init /\ [][Next]_vars

\* the decoder on arbitrary, changed, cut and extended buffers
InitDec == InitBytes(Buffers)
NextDec == DecodeFile \/ PatchByte \/ Truncate \/ Extend
SpecDec == InitDec /\ [][NextDec]_vars

\* ------------------------------------------------------------------------
\* What the claims speak of, stated without the codec's own operators
\* ------------------------------------------------------------------------
Min(a, b) == IF a < b THEN a ELSE b

IsUpperHex(c) == (c >= 48 /\ c <= 57) \/ (c >= 65 /\ c <= 70)
IsHexChar(c) == IsUpperHex(c) \/ (c >= 97 /\ c <= 102)

\* exactly 6 uppercase hexadecimal digits
IsCanonicalId(s) == Len(s) = 6 /\ \A i \in 1..6 : IsUpperHex(s[i])

\* one or more digits, a point, exactly 3 digits
IsDecimal3(s) ==
    /\ Len(s) >= 5
    /\ s[Len(s) - 3] = 46
    /\ \A i \in 1..Len(s) : i # Len(s) - 3 => IsDigit(s[i])

\* the digits of a hexadecimal id without sign and leading zeros
RECURSIVE StripZeros(_)
StripZeros(s) == IF s # <<>> /\ s[1] = 48 THEN StripZeros(Tail(s)) ELSE s

Unsigned(s) == IF s # <<>> /\ s[1] = 43 THEN Tail(s) ELSE s

\* a hexadecimal number of at most 24 bits: digits only (after an optional
\* plus sign), at least one, at most 6 of them significant
IsId24(s) ==
    LET u == Unsigned(s)
    IN  /\ u # <<>>
        /\ \A i \in 1..Len(u) : IsHexChar(u[i])
        /\ Len(StripZeros(u)) <= 6

\* the number an id of at most 24 bits denotes
RECURSIVE HexValue(_)
HexValue(s) ==
    IF s = <<>> THEN 0
    ELSE HexValue(SubSeq(s, 1, Len(s) - 1)) * 16 + HexDigit(s[Len(s)])

IdValue(s) == HexValue(StripZeros(Unsigned(s)))

\* the place of record j after a stable ascending sort by id value
Rank(records, j) ==
    1 + Cardinality({k \in 1..Len(records) :
                        \/ IdValue(records[k].flarm_id) < IdValue(records[j].flarm_id)
                        \/ /\ IdValue(records[k].flarm_id) = IdValue(records[j].flarm_id)
                           /\ k < j})

\* the longest prefix of a UTF-8 string that has at most n bytes and is
\* itself UTF-8, i.e. ends between two code points
BoundaryPrefix(s, n) ==
    LET ks == {k \in 0..Min(n, Len(s)) : from_utf8_ok(SubSeq(s, 1, k))}
        k == CHOOSE x \in ks : \A y \in ks : y <= x
    IN  SubSeq(s, 1, k)

\* the bytes before the first zero byte, everything when there is none
BeforeZero(s) ==
    LET zs == {i \in 1..Len(s) : s[i] = 0}
    IN  IF zs = {} THEN s
        ELSE SubSeq(s, 1, (CHOOSE i \in zs : \A j \in zs : i <= j) - 1)

TextFields == <<"call_sign", "pilot_name", "airfield", "plane_type", "registration">>

\* the canonical decimal of a non-zero u32 count of thousandths:
\* 0.001 .. 4294967.295, no needless leading zero
IsCanonicalFrequency(s) ==
    /\ IsDecimal3(s)
    /\ LET whole == SubSeq(s, 1, Len(s) - 4)
           frac == SubSeq(s, Len(s) - 2, Len(s))
       IN  /\ Len(whole) <= 7
           /\ Len(whole) > 1 => whole[1] # 48
           /\ DigitsValue(whole) + DigitsValue(frac) > 0
           /\ \/ DigitsValue(whole) < 4294967
              \/ DigitsValue(whole) = 4294967 /\ DigitsValue(frac) <= 295

\* ------------------------------------------------------------------------
\* C1: round trip
\* ------------------------------------------------------------------------
C1_ValidAsClaimed(f) ==
    \A j \in 1..Len(f.records) :
        /\ IsCanonicalId(f.records[j].flarm_id)
        /\ f.records[j].frequency = <<>> \/ IsDecimal3(f.records[j].frequency)

C1_Valid(f) ==
    \A j \in 1..Len(f.records) :
        /\ IsCanonicalId(f.records[j].flarm_id)
        /\ f.records[j].frequency = <<>> \/ IsCanonicalFrequency(f.records[j].frequency)

C1_Decoded == origin = "file" /\ pc \in {"decoded", "reencoded"}

\* C1 as claimed: for a File of 6-digit uppercase ids and frequencies that are
\* empty or have exactly 3 fractional digits, encode_file succeeds and
\* decode_file of its output returns the version, as many outcomes as records,
\* all Ok, the records in stable ascending id order with id and frequency
\* unchanged and each text equal to the original or to its longest
\* boundary-safe prefix of at most 15 bytes.
C1_RoundTripAsClaimed ==
    (origin = "file" /\ C1_ValidAsClaimed(file)) =>
        /\ pc # "failed"
        /\ C1_Decoded =>
              /\ decoded.ok
              /\ decoded.val.version = file.version
              /\ Len(decoded.val.records) = Len(file.records)
              /\ \A j \in 1..Len(file.records) :
                    LET o == decoded.val.records[Rank(file.records, j)]
                        r == file.records[j]
                    IN  /\ o.ok
                        /\ o.val.flarm_id = r.flarm_id
                        /\ o.val.frequency = r.frequency
                        /\ \A i \in 1..5 :
                              \/ o.val[TextFields[i]] = r[TextFields[i]]
                              \/ o.val[TextFields[i]] = BoundaryPrefix(r[TextFields[i]], 15)

\* C1, amended: the same for frequencies that are empty or the canonical
\* decimal of a non-zero u32 of thousandths (0.001 .. 4294967.295, no needless
\* leading zero); each decoded text is the original's longest boundary-safe
\* prefix of at most 15 bytes, cut before its first zero byte if it has one.
C1_RoundTrip ==
    (origin = "file" /\ C1_Valid(file)) =>
        /\ pc # "failed"
        /\ C1_Decoded =>
              /\ decoded.ok
              /\ decoded.val.version = file.version
              /\ Len(decoded.val.records) = Len(file.records)
              /\ \A j \in 1..Len(file.records) :
                    LET o == decoded.val.records[Rank(file.records, j)]
                        r == file.records[j]
                    IN  /\ o.ok
                        /\ o.val.flarm_id = r.flarm_id
                        /\ o.val.frequency = r.frequency
                        /\ \A i \in 1..5 :
                              o.val[TextFields[i]]
                                  = BeforeZero(BoundaryPrefix(r[TextFields[i]], 15))

\* a decoded File of several valid records that the encoder had to reorder,
\* with equal ids and a text too long for its field
C1_Witness ==
    /\ C1_Decoded
    /\ C1_Valid(file)
    /\ \E j \in 1..Len(file.records) : Rank(file.records, j) # j
    /\ \E j, k \in 1..Len(file.records) :
           j # k /\ file.records[j].flarm_id = file.records[k].flarm_id
    /\ \E j \in 1..Len(file.records), i \in 1..5 :
           Len(file.records[j][TextFields[i]]) > 15

\* ------------------------------------------------------------------------
\* C2: idempotence
\* ------------------------------------------------------------------------
\* C2: whenever encode_file(f) succeeds and every record of its output
\* decodes, encoding the decoded File gives the bytes of encode_file(f).
C2_Idempotent ==
    (origin = "file" /\ pc = "reencoded") => reencoded = encoded

\* the same, for Files without bytes after a zero byte in the first 15 bytes
\* of a text
C2_NoHiddenBytes(f) ==
    \A j \in 1..Len(f.records), i \in 1..5 :
        LET p == BoundaryPrefix(f.records[j][TextFields[i]], 15)
        IN  \A k \in 1..Len(p) : p[k] = 0 => \A m \in k..Len(p) : p[m] = 0

C2_IdempotentElsewhere ==
    (origin = "file" /\ pc = "reencoded" /\ C2_NoHiddenBytes(file)) => reencoded = encoded

\* ------------------------------------------------------------------------
\* C3: the file-level outcome of decode_file
\* ------------------------------------------------------------------------
\* the declared record count is at most q (q a small number)
CountAtMost(buf, q) ==
    /\ buf[12] = 0
    /\ buf[11] < 128
    /\ buf[9] + 256 * buf[10] + 65536 * buf[11] <= q

\* the buffer has the 12 + 4N + 8 + 96N bytes its header asks for
LongEnough(buf) == Len(buf) >= 20 /\ CountAtMost(buf, (Len(buf) - 20) \div 100)

\* C3: fewer than 12 bytes fail with UnexpectedEof whatever they are; else a
\* wrong magic fails with InvalidMagic carrying the first 4 bytes; else the
\* decode fails with UnexpectedEof exactly when the length is below
\* 20 + 100 * N, and returns Ok otherwise, trailing bytes or not.
C3_FileOutcome ==
    pc = "decoded" =>
        IF Len(data) < 12 THEN decoded = Err([tag |-> "UnexpectedEof"])
        ELSE IF SubSeq(data, 1, 4) # <<8, 213, 25, 135>>
        THEN decoded = Err([tag |-> "InvalidMagic", magic |-> SubSeq(data, 1, 4)])
        ELSE IF LongEnough(data) THEN decoded.ok
        ELSE decoded = Err([tag |-> "UnexpectedEof"])

\* a buffer that decoded, then lost its last needed byte and fails
C3_Witness ==
    /\ pc = "decoded"
    /\ patches > 0
    /\ prevDecoded.ok
    /\ Len(prev) > Len(data)
    /\ Len(data) >= 12
    /\ SubSeq(data, 1, 4) = <<8, 213, 25, 135>>
    /\ LongEnough(data \o <<0>>)
    /\ decoded = Err([tag |-> "UnexpectedEof"])

\* ------------------------------------------------------------------------
\* C4: one outcome per slot, each from its own 96 bytes
\* ------------------------------------------------------------------------
DeclaredCount(buf) == buf[9] + 256 * buf[10] + 65536 * buf[11]

\* the 96 bytes of slot i (from 1) of a buffer declaring n records
SlotBytes(buf, n, i) == SubSeq(buf, 20 + 4 * n + 96 * (i - 1) + 1, 20 + 4 * n + 96 * i)

\* C4: an Ok result has as many outcomes as the header declares and the
\* version of bytes 4..8; two buffers declaring the same count give the same
\* outcome in every slot whose 96 bytes agree, whatever happens in the other
\* slots; buffers that differ only in index, padding or bytes past the
\* expected size give the same result.
C4_SlotsIndependent ==
    (pc = "decoded" /\ decoded.ok) =>
        /\ Len(decoded.val.records) = DeclaredCount(data)
        /\ decoded.val.version.lo = data[5] + 256 * data[6]
        /\ decoded.val.version.hi = data[7] + 256 * data[8]
        /\ (patches > 0 /\ prevDecoded.ok /\ DeclaredCount(prev) = DeclaredCount(data)) =>
              LET n == DeclaredCount(data)
                  same == {i \in 1..n : SlotBytes(prev, n, i) = SlotBytes(data, n, i)}
              IN  /\ \A i \in same : decoded.val.records[i] = prevDecoded.val.records[i]
                  /\ (same = 1..n /\ SubSeq(prev, 1, 12) = SubSeq(data, 1, 12))
                        => decoded = prevDecoded

\* a change made slot 1 an error; slot 2 is still the record it was
C4_Witness ==
    /\ pc = "decoded"
    /\ patches > 0
    /\ decoded.ok
    /\ prevDecoded.ok
    /\ Len(decoded.val.records) = 2
    /\ prevDecoded.val.records[1].ok
    /\ ~decoded.val.records[1].ok
    /\ decoded.val.records[2].ok
    /\ decoded.val.records[2] = prevDecoded.val.records[2]

\* ------------------------------------------------------------------------
\* C9: the outcome of one record slot
\* ------------------------------------------------------------------------
\* the content of text field k (from 1) of a 96-byte record
FieldContent(rec, k) == BeforeZero(SubSeq(rec, 16 * k + 1, 16 * k + 16))

C9_SlotOutcome(rec, o) ==
    IF rec[4] # 0
    THEN o = Err([tag |-> "InvalidFlarmId",
                  id |-> [hi |-> rec[4] * 256 + rec[3], lo |-> rec[2] * 256 + rec[1]]])
    ELSE LET bad == {k \in 1..5 : ~from_utf8_ok(FieldContent(rec, k))}
         IN  IF bad # {}
             THEN LET k == CHOOSE x \in bad : \A y \in bad : x <= y
                  IN  o = Err([tag |-> "InvalidUtf8", field |-> TextFields[k],
                               offset |-> 16 * k])
             ELSE /\ o.ok
                  /\ IsCanonicalId(o.val.flarm_id)
                  /\ IdValue(o.val.flarm_id) = rec[1] + 256 * rec[2] + 65536 * rec[3]
                  /\ \A k \in 1..5 : o.val[TextFields[k]] = FieldContent(rec, k)

\* C9: a raw id above 0xFFFFFF gives InvalidFlarmId with the raw value whatever
\* the text fields hold; otherwise the first text field, in layout order, whose
\* content (the bytes before its first zero byte, all 16 without one) is not
\* UTF-8 gives InvalidUtf8 with its name and offset; otherwise the record has
\* the id as 6 uppercase hex digits and the five contents.
C9_RecordOutcome ==
    (pc = "decoded" /\ decoded.ok) =>
        \A i \in 1..Len(decoded.val.records) :
            C9_SlotOutcome(SlotBytes(data, Len(decoded.val.records), i),
                           decoded.val.records[i])

\* slot 1: id too large and a bad call_sign, reported as the id; slot 2: bad
\* pilot_name and bad registration, reported as pilot_name at 32
C9_Witness ==
    /\ pc = "decoded"
    /\ decoded.ok
    /\ Len(decoded.val.records) = 2
    /\ ~from_utf8_ok(FieldContent(SlotBytes(data, 2, 1), 1))
    /\ decoded.val.records[1].err.tag = "InvalidFlarmId"
    /\ ~from_utf8_ok(FieldContent(SlotBytes(data, 2, 2), 5))
    /\ decoded.val.records[2].err = [tag |-> "InvalidUtf8", field |-> "pilot_name",
                                      offset |-> 32]

\* ------------------------------------------------------------------------
\* C5: ids are validated before anything is written
\* ------------------------------------------------------------------------
C5_BadIds(f) == {j \in 1..Len(f.records) : ~IsId24(f.records[j].flarm_id)}

\* C5: if some flarm_id is not a hexadecimal number of at most 24 bits,
\* Writer::write and encode_file fail with InvalidFlarmId carrying the string
\* of the first such record in input order, the sink has received nothing,
\* whatever the frequencies are; with every id valid (FFFFFF included) no
\* InvalidFlarmId is returned.
C5_IdsFirst ==
    (origin = "file" /\ pc # "file") =>
        LET bad == C5_BadIds(file)
        IN  IF bad # {}
            THEN LET j == CHOOSE x \in bad : \A y \in bad : x <= y
                 IN  /\ encoded = Err([tag |-> "InvalidFlarmId",
                                       s |-> file.records[j].flarm_id])
                     /\ sink = <<>>
            ELSE encoded.ok \/ encoded.err.tag = "InvalidFrequency"

\* a frequency that does not parse, in a record with the id FFFFFF, comes
\* before two different ids that do not parse: the first of these is reported
C5_Witness ==
    /\ origin = "file"
    /\ pc = "failed"
    /\ Len(file.records) = 3
    /\ C5_BadIds(file) = {2, 3}
    /\ file.records[2].flarm_id # file.records[3].flarm_id
    /\ file.records[1].flarm_id = <<70, 70, 70, 70, 70, 70>>
    /\ file.records[1].frequency = <<97, 98, 99>>
    /\ encoded.err.s = file.records[2].flarm_id
    /\ sink = <<>>

\* ------------------------------------------------------------------------
\* C6: sorted, stable, counted, indexed
\* ------------------------------------------------------------------------
\* the id stored in slot i of an encoder output for n records
SlotId(buf, n, i) ==
    LET s == SlotBytes(buf, n, i) IN s[1] + 256 * s[2] + 65536 * s[3] + 16777216 * s[4]

\* C6: in every successful output the header count is the number of input
\* records, the slots are in ascending id order, input record j sits in the
\* slot a stable sort gives it, and index entry i repeats the id bytes of
\* slot i.
C6_SortedStable ==
    (origin = "file" /\ encoded.ok) =>
        LET out == encoded.val
            n == Len(file.records)
        IN  /\ SubSeq(out, 9, 12) = <<n, 0, 0, 0>>
            /\ \A i \in 1..(n - 1) : SlotId(out, n, i) <= SlotId(out, n, i + 1)
            /\ \A j \in 1..n :
                  LET slot == SlotBytes(out, n, Rank(file.records, j))
                  IN  /\ SlotId(out, n, Rank(file.records, j))
                            = IdValue(file.records[j].flarm_id)
                      /\ \A k \in 1..5 :
                            FieldContent(slot, k)
                                = BeforeZero(BoundaryPrefix(file.records[j][TextFields[k]], 15))
            /\ \A i \in 1..n :
                  SubSeq(out, 12 + 4 * (i - 1) + 1, 12 + 4 * i) = SubSeq(SlotBytes(out, n, i), 1, 4)

\* three records encoded, two with the same id value given in input order
\* after a record with a larger id
C6_Witness ==
    /\ origin = "file"
    /\ encoded.ok
    /\ Len(file.records) = 3
    /\ IdValue(file.records[1].flarm_id) > IdValue(file.records[2].flarm_id)
    /\ IdValue(file.records[2].flarm_id) = IdValue(file.records[3].flarm_id)
    /\ file.records[2] # file.records[3]

\* ------------------------------------------------------------------------
\* C7: text fields
\* ------------------------------------------------------------------------
\* C7: every 16-byte text field of an output holds the longest prefix of the
\* value that has at most 15 bytes and ends between code points, then zeros;
\* its 16th byte is zero.
C7_TextField ==
    (origin = "file" /\ encoded.ok) =>
        \A j \in 1..Len(file.records), k \in 1..5 :
            LET slot == SlotBytes(encoded.val, Len(file.records), Rank(file.records, j))
                field == SubSeq(slot, 16 * k + 1, 16 * k + 16)
                p == BoundaryPrefix(file.records[j][TextFields[k]], 15)
            IN  /\ field = p \o [i \in 1..(16 - Len(p)) |-> 0]
                /\ field[16] = 0

\* a value of 17 bytes whose 15th byte is inside a 4-byte code point: 13
\* bytes are written
C7_Witness ==
    /\ origin = "file"
    /\ encoded.ok
    /\ Len(file.records) = 1
    /\ Len(file.records[1].call_sign) = 17
    /\ IsCont(file.records[1].call_sign[16])
    /\ IsCont(file.records[1].call_sign[15])
    /\ FieldContent(SlotBytes(encoded.val, 1, 1), 1) = SubSeq(file.records[1].call_sign, 1, 13)

\* ------------------------------------------------------------------------
\* C10: what the encoder writes decodes
\* ------------------------------------------------------------------------
\* C10: a successful output for N records has 20 + 100 * N bytes, and
\* decode_file of it returns Ok with the version, N outcomes, every one Ok.
C10_OutputDecodes ==
    (origin = "file" /\ encoded.ok) =>
        /\ Len(encoded.val) = 20 + 100 * Len(file.records)
        /\ pc \in {"decoded", "reencoded"} =>
              /\ decoded.ok
              /\ decoded.val.version = file.version
              /\ Len(decoded.val.records) = Len(file.records)
              /\ \A i \in 1..Len(decoded.val.records) : decoded.val.records[i].ok

\* decoded: a record with a zero byte inside a text, a text cut inside a
\* code point's reach, and an id that is not spelled canonically
C10_Witness ==
    /\ origin = "file"
    /\ pc = "decoded"
    /\ \E j \in 1..Len(file.records) :
          /\ ~IsCanonicalId(file.records[j].flarm_id)
          /\ file.records[j].frequency # <<>>
    /\ \E j \in 1..Len(file.records), k \in 1..5 :
          Len(file.records[j][TextFields[k]]) > 15
    /\ \E j \in 1..Len(file.records), k \in 1..5 :
          BeforeZero(file.records[j][TextFields[k]]) # file.records[j][TextFields[k]]
    /\ Len(encoded.val) = 320

\* ------------------------------------------------------------------------
\* C8: the frequency mapping
\* ------------------------------------------------------------------------
\* What the frequency strings of the inputs denote: `claimed` is the number
\* times 1000 rounded to the nearest integer (as a [hi, lo] pair, which is
\* outside the u32 range for a negative or too large number), `stored` is
\* that integer clamped to 0 .. 4294967295, and 0 for a NaN.  Strings that
\* are no number literal are in NotNumbers.
FrequencyTable ==
    { [s |-> Bytes("123.500"), claimed |-> W(123500), stored |-> W(123500)],
      [s |-> Bytes("123.150"), claimed |-> W(123150), stored |-> W(123150)],
      [s |-> Bytes("0.001"), claimed |-> W(1), stored |-> W(1)],
      [s |-> Bytes("4294967.295"), claimed |-> U32_MAX, stored |-> U32_MAX],
      [s |-> Bytes("0.000"), claimed |-> W(0), stored |-> W(0)],
      [s |-> Bytes("0123.500"), claimed |-> W(123500), stored |-> W(123500)],
      [s |-> Bytes("4294967.296"), claimed |-> [hi |-> 65536, lo |-> 0], stored |-> U32_MAX],
      [s |-> Bytes("99999999999.000"), claimed |-> [hi |-> 1525878906, lo |-> 15384],
       stored |-> U32_MAX],
      [s |-> Bytes("-1.000"), claimed |-> [hi |-> -1, lo |-> 64536], stored |-> W(0)],
      [s |-> Bytes("123.5"), claimed |-> W(123500), stored |-> W(123500)],
      [s |-> Bytes("123"), claimed |-> W(123000), stored |-> W(123000)],
      [s |-> Bytes("1"), claimed |-> W(1000), stored |-> W(1000)],
      [s |-> Bytes("1.2346"), claimed |-> W(1235), stored |-> W(1235)],
      [s |-> Bytes("1.2344"), claimed |-> W(1234), stored |-> W(1234)],
      [s |-> Bytes(".5"), claimed |-> W(500), stored |-> W(500)],
      [s |-> Bytes("1e2"), claimed |-> W(100000), stored |-> W(100000)] }

\* literals the parser accepts that are no decimal number
SpecialTable ==
    { [s |-> Bytes("inf"), stored |-> U32_MAX],
      [s |-> Bytes("NaN"), stored |-> W(0)] }

NotNumbers ==
    {Bytes("abc"), Bytes("12a"), Bytes("1.2.3"), Bytes(" 1"), Bytes("x"), Bytes("y")}

\* the frequency integer stored in slot i of an output for n records
SlotFrequency(buf, n, i) == SubSeq(SlotBytes(buf, n, i), 5, 8)

LeBytes(v) == <<v.lo % 256, v.lo \div 256, v.hi % 256, v.hi \div 256>>

\* the string is the decimal of v thousandths: digits, a point, 3 digits, no
\* needless leading zero
IsDecimalOf(s, v) ==
    /\ IsDecimal3(s)
    /\ LET whole == SubSeq(s, 1, Len(s) - 4)
           frac == SubSeq(s, Len(s) - 2, Len(s))
       IN  /\ Len(whole) > 1 => whole[1] # 48
           /\ Len(whole) <= 7
           /\ WAdd(WMul(W(DigitsValue(whole)), 1000), W(DigitsValue(frac))) = v

\* the frequency integer of the one record of a buffer of FreqBuffers
BufferFrequency(buf) ==
    [hi |-> buf[32] * 256 + buf[31], lo |-> buf[30] * 256 + buf[29]]

\* the decode half and the round trip, on a buffer holding the integer v
C8_DecodeAndBack ==
    (origin = "bytes" /\ pc \in {"decoded", "reencoded"}) =>
        LET v == BufferFrequency(data)
            s == decoded.val.records[1].val.frequency
        IN  /\ decoded.ok /\ decoded.val.records[1].ok
            /\ IF v = W(0) THEN s = <<>> ELSE IsDecimalOf(s, v)
            /\ pc = "reencoded" =>
                  /\ reencoded.ok
                  /\ SlotFrequency(reencoded.val, 1, 1) = SubSeq(data, 29, 32)

\* the encode half, on a File whose ids are valid: `column` is "claimed" or
\* "stored"; `special` tells whether inf and nan are spoken of
C8_Encode(column, special) ==
    (origin = "file" /\ pc # "file" /\ C5_BadIds(file) = {}) =>
        LET n == Len(file.records)
            fails == {j \in 1..n : file.records[j].frequency \in NotNumbers}
        IN  /\ encoded.ok <=> fails = {}
            /\ ~encoded.ok =>
                  \E j \in fails :
                      encoded = Err([tag |-> "InvalidFrequency",
                                     s |-> file.records[j].frequency])
            /\ encoded.ok =>
                  \A j \in 1..n :
                      LET f == file.records[j].frequency
                          got == SlotFrequency(encoded.val, n, Rank(file.records, j))
                      IN  /\ f = <<>> => got = <<0, 0, 0, 0>>
                          /\ \A e \in FrequencyTable : e.s = f => got = LeBytes(e[column])
                          /\ special =>
                                \A e \in SpecialTable : e.s = f => got = LeBytes(e.stored)

\* C8 as claimed: decode maps 0 to "" and v to the decimal of v thousandths;
\* encode maps "" to 0 and a number to itself times 1000 rounded to the
\* nearest integer, and fails with InvalidFrequency on a string that is no
\* number; the string decode gives for any u32 encodes to that u32 again.
C8_MappingAsClaimed == C8_DecodeAndBack /\ C8_Encode("claimed", FALSE)

\* C8, amended: the rounded integer is clamped to the u32 range (a negative
\* number gives 0, a number above 4294967.295 gives 4294967295), and the
\* literals inf and nan, which the parser accepts, give 4294967295 and 0.
C8_Mapping == C8_DecodeAndBack /\ C8_Encode("stored", TRUE)

\* u32::MAX came out as 4294967.295 and went back in as ff ff ff ff
C8_Witness ==
    /\ origin = "bytes"
    /\ pc = "reencoded"
    /\ SubSeq(data, 29, 32) = <<255, 255, 255, 255>>
    /\ decoded.val.records[1].val.frequency = <<52, 50, 57, 52, 57, 54, 55, 46, 50, 57, 53>>
    /\ SlotFrequency(reencoded.val, 1, 1) = <<255, 255, 255, 255>>

\* ------------------------------------------------------------------------
\* C11: frequencies are parsed record by record, after header and index
\* ------------------------------------------------------------------------
C11_BadFrequencies(f) == {j \in 1..Len(f.records) : f.records[j].frequency \in NotNumbers}

\* the input record that a stable ascending sort by id puts at place i
C11_At(f, i) == CHOOSE j \in 1..Len(f.records) : Rank(f.records, j) = i

\* the place, after the sort, of the first record whose frequency is not a number
C11_FailingPlace(f) ==
    CHOOSE i \in 1..Len(f.records) :
        /\ C11_At(f, i) \in C11_BadFrequencies(f)
        /\ \A h \in 1..(i - 1) : C11_At(f, h) \notin C11_BadFrequencies(f)

\* C11: when every flarm_id is valid and some record has a frequency that is
\* not a number, Writer::write returns InvalidFrequency with the frequency of
\* the first such record in sorted order (ascending id, equal ids in input
\* order); the sink then holds the 12-byte header, the whole index of 4 * N
\* bytes, 8 zero bytes of padding and the 96-byte records of exactly the
\* records sorted before the failing one; encode_file returns the error alone.
C11_LazyFrequencies ==
    (/\ origin = "file"
     /\ pc # "file"
     /\ C5_BadIds(file) = {}
     /\ C11_BadFrequencies(file) # {}) =>
        LET n == Len(file.records)
            k == C11_FailingPlace(file)
            records_offset == 12 + 4 * n + 8
        IN  /\ encoded = Err([tag |-> "InvalidFrequency",
                              s |-> file.records[C11_At(file, k)].frequency])
            /\ pc = "failed"
            /\ Len(sink) = records_offset + 96 * (k - 1)
            /\ SubSeq(sink, 1, 4) = <<8, 213, 25, 135>>
            /\ SubSeq(sink, 5, 8) = LeBytes(file.version)
            /\ SubSeq(sink, 9, 12) = <<n, 0, 0, 0>>
            /\ \A i \in 1..n :
                  SubSeq(sink, 12 + 4 * (i - 1) + 1, 12 + 4 * i)
                      = LeBytes(W(IdValue(file.records[C11_At(file, i)].flarm_id)))
            /\ SubSeq(sink, 12 + 4 * n + 1, records_offset) = <<0, 0, 0, 0, 0, 0, 0, 0>>
            /\ \A i \in 1..(k - 1) :
                  LET j == C11_At(file, i)
                      slot == SubSeq(sink, records_offset + 96 * (i - 1) + 1,
                                     records_offset + 96 * i)
                      alone == encode_file(File(file.version, <<file.records[j]>>))
                  IN  /\ alone.ok
                      /\ slot = SubSeq(alone.val, 25, 120)

\* three records with valid ids: the first in input order, with the largest
\* id, has a frequency that is not a number, and so has the last, which is
\* sorted second; the error names the last one, and the sink holds header,
\* index, padding and the one record sorted before it
C11_Witness ==
    /\ origin = "file"
    /\ pc = "failed"
    /\ Len(file.records) = 3
    /\ C5_BadIds(file) = {}
    /\ C11_BadFrequencies(file) = {1, 3}
    /\ Rank(file.records, 1) = 3
    /\ Rank(file.records, 3) = 2
    /\ encoded.err.s = file.records[3].frequency
    /\ file.records[3].frequency # file.records[1].frequency
    /\ Len(sink) = 12 + 12 + 8 + 96

\* two records with the same id value and two different frequencies that are
\* not numbers: the one given first is named
C11_WitnessStable ==
    /\ origin = "file"
    /\ pc = "failed"
    /\ Len(file.records) = 2
    /\ C5_BadIds(file) = {}
    /\ C11_BadFrequencies(file) = {1, 2}
    /\ IdValue(file.records[1].flarm_id) = IdValue(file.records[2].flarm_id)
    /\ file.records[1].frequency # file.records[2].frequency
    /\ encoded.err.s = file.records[1].frequency
    /\ Len(sink) = 12 + 8 + 8

\* two records with the same id value, the first with a frequency that is not
\* a number: the second, given later, is not written before the failure
C11_WitnessStableSink ==
    /\ origin = "file"
    /\ pc = "failed"
    /\ Len(file.records) = 2
    /\ C5_BadIds(file) = {}
    /\ C11_BadFrequencies(file) = {1}
    /\ IdValue(file.records[1].flarm_id) = IdValue(file.records[2].flarm_id)
    /\ Len(sink) = 12 + 8 + 8

====
